---- MODULE Spec2Model ----
(***************************************************************************)
(* The two HTTP services of the repository as one state machine:           *)
(*   - the Synthesis Service   (src/tts/api_server.py)                     *)
(*   - the Transcription Service (src/whisper/app.py)                      *)
(* Every handler is one action.  The model runtimes are external: what     *)
(* they return or raise is drawn nondeterministically from small sets.     *)
(***************************************************************************)
EXTENDS Integers, Sequences, FiniteSets, TLC

VARIABLES
    phase,       \* Synthesis process: "imported", "loading", "serving", "stopped", "failed"
    tts,         \* the global TTS handle of api_server.py: None or the loaded handle
    presets,     \* preset table of the loaded runtime: sequence of <<description, id>>
    closeCalls,  \* number of tts.close() calls made so far
    model,       \* the global WhisperModel handle of app.py
    files,       \* names of the transient upload files that exist on disk
    someFailed,  \* TRUE once a request has been answered with a failure
    last         \* the request answered last, with its response

vars == <<phase, tts, presets, closeCalls, model, files, someFailed, last>>

\* ---------------------------------------------------------------------------
\* Bounds of the model
\* ---------------------------------------------------------------------------
MaxSegs == 2         \* most segments the speech model yields for one upload
MaxFiles == 1        \* most transient files that may pile up on disk
MaxSamples == 2      \* longest waveform infer returns
MaxTick == 1         \* largest reading of the clock, in tenths of a millisecond

\* ---------------------------------------------------------------------------
\* Configuration and constants of the Synthesis Service
\* ---------------------------------------------------------------------------
None == "None"
Handle == "FastVieNeuTTS"
WhisperHandle == "WhisperModel"

BACKBONE_REPO == "pnnbao-ump/VieNeu-TTS"
DEFAULT_VOICE == "Doan"
MODEL_SIZE == "medium"
DEVICE == "cuda"

MinTextLen == 1
MaxTextLen == 5000
MinTemperature == 10      \* 0.1, in hundredths
MaxTemperature == 150     \* 1.5, in hundredths
MinCharsChunk == 64
MaxCharsChunk == 512
SampleRate == 24000

\* ---------------------------------------------------------------------------
\* The external TTS runtime: its voices and what its calls may do
\* ---------------------------------------------------------------------------
VoiceIds == {"Doan", "Vinh"}

DescOf(vid) == IF vid = "Doan" THEN "desc_Doan" ELSE "desc_Vinh"

RefTextOf(vid) == IF vid = "Doan" THEN "text_Doan" ELSE "text_Vinh"

\* list_preset_voices() of a loaded runtime: (description, id) pairs, ids distinct
PresetTables ==
    UNION { { [i \in 1..n |-> <<DescOf(f[i]), f[i]>>] :
                f \in { g \in [1..n -> VoiceIds] :
                          \A i, j \in 1..n : i # j => g[i] # g[j] } } :
            n \in 0..Cardinality(VoiceIds) }

LookupOutcomes == {"raise", "notext", "text"}

InferOutcomes ==
    { [kind |-> "raise", n |-> 0], [kind |-> "null", n |-> 0] }
        \cup { [kind |-> "wav", n |-> k] : k \in 0..MaxSamples }

NoInfer == [kind |-> "unused", n |-> 0]

\* ---------------------------------------------------------------------------
\* Requests to POST /api/tts
\* ---------------------------------------------------------------------------
VoiceFields == {None, "", "Doan", "Vinh", "Nope"}

\* text length, temperature (in hundredths) and max_chars_chunk: the defaults,
\* the upper limits, and each field in turn out of range
Fields(t, temp, c) == [textLen |-> t, temperature |-> temp, max_chars_chunk |-> c]

BodyFields ==
    { Fields(1, 100, 256), Fields(5000, 150, 512),
      Fields(0, 100, 256), Fields(5001, 100, 256),
      Fields(1, 9, 256), Fields(1, 151, 256),
      Fields(1, 100, 63), Fields(1, 100, 513) }

TTSRequests ==
    { [textLen |-> b.textLen, voice |-> v, temperature |-> b.temperature,
       max_chars_chunk |-> b.max_chars_chunk] : b \in BodyFields, v \in VoiceFields }

NoRequest == [textLen |-> 0, voice |-> None, temperature |-> 0, max_chars_chunk |-> 0]

\* class TTSRequest: the Field constraints pydantic enforces before the handler
ValidBody(req) ==
    /\ req.textLen >= MinTextLen /\ req.textLen <= MaxTextLen
    /\ req.temperature >= MinTemperature /\ req.temperature <= MaxTemperature
    /\ req.max_chars_chunk >= MinCharsChunk /\ req.max_chars_chunk <= MaxCharsChunk

\* req.voice or DEFAULT_VOICE: None and the empty string are both falsy
VoiceOrDefault(voice) == IF voice = None \/ voice = "" THEN DEFAULT_VOICE ELSE voice

\* [vid for _, vid in tts.list_preset_voices()]
AvailableIds(ps) == [i \in 1..Len(ps) |-> ps[i][2]]

InSeq(x, s) == \E i \in 1..Len(s) : s[i] = x

NoCalls == [list |-> 0, get |-> 0, infer |-> 0, transcribe |-> 0]

Calls(l, g, i) == [list |-> l, get |-> g, infer |-> i, transcribe |-> 0]

NoBody == [kind |-> "none"]

\* ---------------------------------------------------------------------------
\* Synthesis Service handlers (src/tts/api_server.py)
\* ---------------------------------------------------------------------------
\* time.time() at line 189 (start) and at line 212 (end), in tenths of a
\* millisecond.  time.time() is the wall clock: two readings may be equal, and
\* the later one may be the smaller when the system clock is set back.
ClockReadings == [start : 0..MaxTick, end : 0..MaxTick]

NoClock == [start |-> 0, end |-> 0]

Answer(st, body, calls, get, inf) ==
    [status |-> st, body |-> body, calls |-> calls, get |-> get, infer |-> inf,
     clock |-> NoClock]

\* synthesize() with the 503 guard left out: tts.list_preset_voices() on None
\* raises AttributeError outside the try block
SynthesizeNoGuard(h, ps, req, gp, inf) ==
    IF h = None THEN Answer(500, NoBody, Calls(1, 0, 0), "unused", NoInfer)
    ELSE IF ~InSeq(VoiceOrDefault(req.voice), AvailableIds(ps))
    THEN Answer(400, NoBody, Calls(1, 0, 0), "unused", NoInfer)
    ELSE IF gp = "raise" THEN Answer(500, NoBody, Calls(1, 1, 0), gp, NoInfer)
    ELSE IF inf.kind = "wav" /\ inf.n > 0
    THEN Answer(200, [kind |-> "wav", samples |-> inf.n], Calls(1, 1, 1), gp, inf)
    ELSE Answer(500, NoBody, Calls(1, 1, 1), gp, inf)

\* synthesize() testing only `audio_wav is None`, not the zero length
SynthesizeNoLenCheck(h, ps, req, gp, inf) ==
    IF h = None THEN Answer(503, NoBody, NoCalls, "unused", NoInfer)
    ELSE IF ~InSeq(VoiceOrDefault(req.voice), AvailableIds(ps))
    THEN Answer(400, NoBody, Calls(1, 0, 0), "unused", NoInfer)
    ELSE IF gp = "raise" THEN Answer(500, NoBody, Calls(1, 1, 0), gp, NoInfer)
    ELSE IF inf.kind = "wav"
    THEN Answer(200, [kind |-> "wav", samples |-> inf.n], Calls(1, 1, 1), gp, inf)
    ELSE Answer(500, NoBody, Calls(1, 1, 1), gp, inf)

\* synthesize() up to the test of the waveform (lines 176-205; what follows is
\* FinishSynthesis): h is the global tts, ps what list_preset_voices() returns, gp what get_preset_voice(voice_id) does ("ok" or "raise": the lookup
\* raising, or the voice data lacking "codes"/"text"), inf what infer does.
SynthesizeResult(h, ps, req, gp, inf) ==
    IF h = None
    THEN Answer(503, NoBody, NoCalls, "unused", NoInfer)
    ELSE LET voice_id == VoiceOrDefault(req.voice)
             available_ids == AvailableIds(ps)
         IN  IF ~InSeq(voice_id, available_ids)
             THEN Answer(400, NoBody, Calls(1, 0, 0), "unused", NoInfer)
             ELSE IF gp = "raise"
             THEN \* except Exception: 500 "Synthesis failed"
                  Answer(500, NoBody, Calls(1, 1, 0), gp, NoInfer)
             ELSE IF inf.kind = "raise"
             THEN Answer(500, NoBody, Calls(1, 1, 1), gp, inf)
             ELSE IF inf.kind = "null" \/ inf.n = 0
             THEN \* HTTPException(500, "Failed to generate audio"), re-raised
                  Answer(500, NoBody, Calls(1, 1, 1), gp, inf)
             ELSE Answer(200, [kind |-> "wav", samples |-> inf.n],
                         Calls(1, 1, 1), gp, inf)

\* f"{x:.3f}" of a quotient num/den of naturals, in thousandths: the nearest
\* thousandth, ties to even
Format3(num, den) ==
    LET q == (num * 1000) \div den
        r == (num * 1000) % den
    IN  IF 2 * r < den THEN q
        ELSE IF 2 * r > den THEN q + 1
        ELSE IF q % 2 = 0 THEN q ELSE q + 1

\* X-Audio-Duration: f"{duration:.3f}" with duration = len(audio_wav) / 24000
XAudioDuration(samples) == Format3(samples, SampleRate)

\* X-Process-Time: f"{process_time:.3f}", process_time in tenths of a millisecond
XProcessTime(pt) == IF pt >= 0 THEN Format3(pt, 10000) ELSE 0 - Format3(0 - pt, 10000)

\* synthesize() from the encoding on (lines 207-235), for a non-empty waveform:
\* process_time is the difference of the two clock readings; the log line
\* divides duration by it, and a ZeroDivisionError there is caught by
\* `except Exception` and answered 500
FinishSynthesis(ans, clk) ==
    IF ans.status # 200 THEN ans
    ELSE LET process_time == clk.end - clk.start
         IN  IF process_time = 0
             THEN [ans EXCEPT !.status = 500, !.body = NoBody, !.clock = clk]
             ELSE [ans EXCEPT
                     !.clock = clk,
                     !.body = [kind |-> "wav", samples |-> ans.body.samples,
                               process_time |-> process_time,
                               x_process_time |-> XProcessTime(process_time),
                               x_audio_duration |-> XAudioDuration(ans.body.samples)]]

\* POST /api/tts as FastAPI serves it: the body is validated against TTSRequest
\* first (422, the handler does not run), then synthesize() runs
PostTTS(h, ps, req, gp, inf, clk) ==
    IF ~ValidBody(req)
    THEN Answer(422, NoBody, NoCalls, "unused", NoInfer)
    ELSE FinishSynthesis(SynthesizeResult(h, ps, req, gp, inf), clk)

\* list_voices() dropping the presets whose lookup raised
VoiceEntriesDropping(ps, lookup) ==
    LET keep == { i \in 1..Len(ps) : lookup[i] # "raise" }
        RECURSIVE Build(_)
        Build(i) == IF i > Len(ps) THEN <<>>
                    ELSE IF i \in keep
                    THEN << [id |-> ps[i][2], description |-> ps[i][1],
                             ref_text |-> IF lookup[i] = "text"
                                          THEN RefTextOf(ps[i][2]) ELSE ""] >>
                         \o Build(i + 1)
                    ELSE Build(i + 1)
    IN  Build(1)

\* The loop of list_voices(): one VoiceInfo per (desc, vid), ref_text from
\* voice_data.get("text", ""), or "" when get_preset_voice raises
VoiceEntries(ps, lookup) ==
    [i \in 1..Len(ps) |->
        [id |-> ps[i][2], description |-> ps[i][1],
         ref_text |-> IF lookup[i] = "text" THEN RefTextOf(ps[i][2]) ELSE ""]]

\* list_voices()
ListVoicesResult(h, ps, lookup) ==
    IF h = None
    THEN Answer(503, NoBody, NoCalls, "unused", NoInfer)
    ELSE Answer(200, [kind |-> "voices", voices |-> VoiceEntries(ps, lookup),
                      lookup |-> lookup],
                Calls(1, Len(ps), 0), "unused", NoInfer)

\* health() reporting "ok" until the handle exists, else "loading"
HealthInverted(h) ==
    Answer(200, [kind |-> "health",
                 status |-> IF h = None THEN "ok" ELSE "loading",
                 model |-> BACKBONE_REPO, default_voice |-> DEFAULT_VOICE],
           NoCalls, "unused", NoInfer)

\* health() of the Synthesis Service
HealthResult(h) ==
    Answer(200, [kind |-> "health",
                 status |-> IF h # None THEN "ok" ELSE "loading",
                 model |-> BACKBONE_REPO, default_voice |-> DEFAULT_VOICE],
           NoCalls, "unused", NoInfer)

\* the handlers of both services reset the handle after a failed request
HandleResetOnFailure(h, status) == IF status >= 400 THEN None ELSE h

\* The model handle after a request: no handler declares `global tts` or
\* assigns `model`, and none calls close(); the handle is left as it was.
HandleAfterRequest(h, status) == h

Failed(status) == status >= 400

Record(svc, ep, h, req, ans, created, upload) ==
    [svc |-> svc, ep |-> ep, handle |-> h, req |-> req, status |-> ans.status,
     body |-> ans.body, calls |-> ans.calls, get |-> ans.get, infer |-> ans.infer,
     clock |-> ans.clock, created |-> created, upload |-> upload]

NoResponse ==
    [svc |-> "none", ep |-> "none", handle |-> None, req |-> NoRequest, status |-> 0,
     body |-> NoBody, calls |-> NoCalls, get |-> "unused", infer |-> NoInfer,
     clock |-> NoClock, created |-> 0, upload |-> "none"]

\* A request of the Synthesis Service answered with `ans`
AnswerTTS(ep, req, ans) ==
    /\ last' = Record("tts", ep, tts, req, ans, 0, "none")
    /\ tts' = HandleAfterRequest(tts, ans.status)
    /\ someFailed' = (someFailed \/ Failed(ans.status))
    /\ UNCHANGED <<phase, presets, closeCalls, model, files>>

HealthHandler == AnswerTTS("health", NoRequest, HealthResult(tts))

ListVoicesHandler ==
    \E lookup \in [1..Len(presets) -> LookupOutcomes] :
        AnswerTTS("voices", NoRequest, ListVoicesResult(tts, presets, lookup))

\* What the runtime may do in a request: nothing to choose when the request
\* is answered before get_preset_voice is called
RuntimeOutcomes(req) ==
    IF PostTTS(tts, presets, req, "ok", [kind |-> "wav", n |-> 1], NoClock).calls.get = 0
    THEN { [gp |-> "unused", inf |-> NoInfer] }
    ELSE { [gp |-> "raise", inf |-> NoInfer] }
            \cup { [gp |-> "ok", inf |-> i] : i \in InferOutcomes }

\* The clock readings of a request: the second reading is taken only once the
\* waveform has passed the test at line 204
ClocksFor(req, o) ==
    IF ValidBody(req) /\ SynthesizeResult(tts, presets, req, o.gp, o.inf).status = 200
    THEN ClockReadings
    ELSE {NoClock}

SynthesizeHandler ==
    \E req \in TTSRequests :
        \E o \in RuntimeOutcomes(req) :
            \E clk \in ClocksFor(req, o) :
                AnswerTTS("tts", req, PostTTS(tts, presets, req, o.gp, o.inf, clk))

\* requests dispatched as soon as the lifespan is entered
AcceptingEarly == phase \in {"loading", "serving"}

\* The server dispatches requests between the lifespan's yield and shutdown
Accepting == phase = "serving"

Health == Accepting /\ HealthHandler
ListVoices == Accepting /\ ListVoicesHandler
Synthesize == Accepting /\ SynthesizeHandler

\* ---------------------------------------------------------------------------
\* Lifespan of the Synthesis Service
\* ---------------------------------------------------------------------------
\* uvicorn enters lifespan(app): the blocking load begins
StartLifespan ==
    /\ phase = "imported"
    /\ phase' = "loading"
    /\ UNCHANGED <<tts, presets, closeCalls, model, files, someFailed, last>>

\* FastVieNeuTTS(...) returns: tts is assigned, then the lifespan yields
LoadModel ==
    /\ phase = "loading"
    /\ \E ps \in PresetTables : presets' = ps
    /\ tts' = Handle
    /\ phase' = "serving"
    /\ UNCHANGED <<closeCalls, model, files, someFailed, last>>

\* FastVieNeuTTS(...) raises: the lifespan never yields, nothing after it runs
LoadFails ==
    /\ phase = "loading"
    /\ phase' = "failed"
    /\ UNCHANGED <<tts, presets, closeCalls, model, files, someFailed, last>>

\* close() called in the shutdown part and again by a second release
ReleaseTwice(h, n) == IF h # None THEN n + 2 ELSE n

\* `if tts is not None: tts.close()`
Release(h, n) == IF h # None THEN n + 1 ELSE n

\* the code after the yield
Shutdown ==
    /\ phase = "serving"
    /\ closeCalls' = Release(tts, closeCalls)
    /\ phase' = "stopped"
    /\ UNCHANGED <<tts, presets, model, files, someFailed, last>>

\* ---------------------------------------------------------------------------
\* Transcription Service (src/whisper/app.py)
\* ---------------------------------------------------------------------------
\* Segment times are in milliseconds, texts are sequences of characters.
SegTimes == {4, 16}
SegTexts == { <<" ", "a", " ">>, <<" ">> }

Segments == { s \in [start : SegTimes, end : SegTimes, text : SegTexts] :
                s.start <= s.end }

\* What model.transcribe yields: segments in chronological order
SegmentSeqs ==
    UNION { { q \in [1..n -> Segments] :
                \A i \in 1..n : i < n => q[i].start <= q[i + 1].start } :
            n \in 0..MaxSegs }

\* round(x, 2): milliseconds to hundredths of a second, ties to even
Round2(ms) ==
    LET q == ms \div 10
        r == ms % 10
    IN  IF r < 5 THEN q
        ELSE IF r > 5 THEN q + 1
        ELSE IF q % 2 = 0 THEN q ELSE q + 1

IsSpace(c) == c = " "

RECURSIVE LStrip(_)
LStrip(t) == IF t # <<>> /\ IsSpace(Head(t)) THEN LStrip(Tail(t)) ELSE t

RECURSIVE RStrip(_)
RStrip(t) == IF t # <<>> /\ IsSpace(t[Len(t)])
             THEN RStrip(SubSeq(t, 1, Len(t) - 1)) ELSE t

\* str.strip()
Strip(t) == RStrip(LStrip(t))

\* " ".join(parts)
RECURSIVE Join(_)
Join(parts) ==
    IF parts = <<>> THEN <<>>
    ELSE IF Len(parts) = 1 THEN parts[1]
    ELSE parts[1] \o <<" ">> \o Join(Tail(parts))

\* full_text collecting seg.text as the model gave it
FullTextUnstripped(segs) == [i \in 1..Len(segs) |-> segs[i].text]

\* do_transcribe: the full_text list
FullText(segs) == [i \in 1..Len(segs) |-> Strip(segs[i].text)]

\* do_transcribe: the result_segments list
ResultSegments(segs) ==
    [i \in 1..Len(segs) |->
        [start |-> Round2(segs[i].start), end |-> Round2(segs[i].end),
         text |-> Strip(segs[i].text)]]

WhisperOutcomes ==
    { [kind |-> "raise", segs |-> <<>>] }
        \cup { [kind |-> "ok", segs |-> q] : q \in SegmentSeqs }

NoTranscribe == [kind |-> "unused", segs |-> <<>>]

UploadOutcomes == {"missing", "read_raise", "write_raise", "ok"}

\* The try block of transcribe_api
TranscribeResult(mo) ==
    IF mo.kind = "raise"
    THEN Answer(500, NoBody, [NoCalls EXCEPT !.transcribe = 1], "unused", mo)
    ELSE Answer(200, [kind |-> "transcript", text |-> Join(FullText(mo.segs)),
                      segments |-> ResultSegments(mo.segs)],
                [NoCalls EXCEPT !.transcribe = 1], "unused", mo)

\* transcribe_api up to the response: a request without the file part is
\* answered 422 by FastAPI; an exception inside the `with` block leaves the
\* handler before the try statement is entered
PostTranscribe(up, mo) ==
    IF up = "missing" THEN Answer(422, NoBody, NoCalls, "unused", NoTranscribe)
    ELSE IF up # "ok" THEN Answer(500, NoBody, NoCalls, "unused", NoTranscribe)
    ELSE TranscribeResult(mo)

\* NamedTemporaryFile picks a name not in use
FreshName(fs) == CHOOSE n \in 1..(MaxFiles + 1) : n \notin fs /\ \A m \in 1..(n - 1) : m \in fs

\* The files on disk after the handler has returned or raised: the file is
\* created with delete=False, and os.unlink runs in the finally of the try
\* statement, which is entered only after the `with` block has completed
FilesAfter(fs, up) ==
    IF up = "missing" THEN fs
    ELSE IF up = "ok" THEN (fs \cup {FreshName(fs)}) \ {FreshName(fs)}
    ELSE fs \cup {FreshName(fs)}

\* What the speech model may do: nothing to choose when it is not called
ModelOutcomes(up) == IF up = "ok" THEN WhisperOutcomes ELSE {NoTranscribe}

TranscribeApi ==
    /\ Cardinality(files) < MaxFiles
    /\ \E up \in UploadOutcomes :
         \E mo \in ModelOutcomes(up) :
            LET ans == PostTranscribe(up, mo)
                created == IF up = "missing" THEN 0 ELSE FreshName(files)
            IN  /\ last' = Record("stt", "transcribe", model, NoRequest,
                                  ans, created, up)
                /\ files' = FilesAfter(files, up)
                /\ model' = HandleAfterRequest(model, ans.status)
                /\ someFailed' = (someFailed \/ Failed(ans.status))
    /\ UNCHANGED <<phase, tts, presets, closeCalls>>

\* health() of the Transcription Service
WhisperHealth ==
    /\ last' = Record("stt", "health", model, NoRequest,
                      Answer(200, [kind |-> "health", status |-> "ok",
                                   model |-> MODEL_SIZE, device |-> DEVICE],
                             NoCalls, "unused", NoTranscribe),
                      0, "none")
    /\ UNCHANGED <<phase, tts, presets, closeCalls, model, files, someFailed>>

\* ---------------------------------------------------------------------------
\* The specifications
\* ---------------------------------------------------------------------------
\* Both modules imported: tts = None (line 58), the Whisper model loaded
Init ==
    /\ phase = "imported"
    /\ tts = None
    /\ presets = <<>>
    /\ closeCalls = 0
    /\ model = WhisperHandle
    /\ files = {}
    /\ someFailed = FALSE
    /\ last = NoResponse

\* The services as their __main__ blocks run them
Next ==
    \/ StartLifespan
    \/ LoadModel
    \/ LoadFails
    \/ Shutdown
    \/ Health
    \/ ListVoices
    \/ Synthesize
    \/ TranscribeApi
    \/ WhisperHealth

Spec == Init /\ [][Next]_vars

\* The Synthesis app driven without its lifespan (a client that does not run
\* startup, or the app mounted under another one): the handlers run against
\* the module as imported
DetachedHealth == phase = "imported" /\ HealthHandler
DetachedListVoices == phase = "imported" /\ ListVoicesHandler
DetachedSynthesize == phase = "imported" /\ SynthesizeHandler

NextDetached ==
    \/ Next
    \/ DetachedHealth
    \/ DetachedListVoices
    \/ DetachedSynthesize

SpecDetached == Init /\ [][NextDetached]_vars

\* ---------------------------------------------------------------------------
\* Properties
\* ---------------------------------------------------------------------------
IsTTS(ep) == last.svc = "tts" /\ last.ep = ep
IsSTT(ep) == last.svc = "stt" /\ last.ep = ep

\* C1: once a transcribe request that created a transient upload file has
\* finished, on whatever exit path, that file no longer exists; after any
\* sequence of requests no transient file is left on disk.
C1_NoTransientFileRemains ==
    /\ (IsSTT("transcribe") /\ last.created # 0) => last.created \notin files
    /\ files = {}

\* C2: with the model loaded, a POST /api/tts whose voice field is supplied
\* (any string, the empty string included) and is not the id of a known preset
\* is answered 400, and neither get_preset_voice nor infer is called.
C2_UnknownVoiceRejected ==
    ( /\ IsTTS("tts")
      /\ last.handle # None
      /\ ValidBody(last.req)
      /\ last.req.voice # None
      /\ ~InSeq(last.req.voice, AvailableIds(presets)) )
    => (last.status = 400 /\ last.calls.get = 0 /\ last.calls.infer = 0)

\* A request the service is able to serve: synthesis with fields in range, a
\* voice that resolves, a runtime that delivers and a clock that moved; an
\* upload that arrives and a speech model that delivers
Servable(r) ==
    \/ /\ r.svc = "tts" /\ r.ep = "tts"
       /\ ValidBody(r.req)
       /\ InSeq(VoiceOrDefault(r.req.voice), AvailableIds(presets))
       /\ r.get # "raise"
       /\ r.infer.kind \in {"wav", "unused"} /\ (r.infer.kind = "wav" => r.infer.n > 0)
       /\ r.clock.end # r.clock.start
    \/ /\ r.svc = "stt" /\ r.ep = "transcribe"
       /\ r.upload = "ok"
       /\ r.infer.kind # "raise"

\* C3: a request, failed or not, leaves both model handles as they were (same
\* object, still loaded, not closed), and a request the service is able to
\* serve is served (200) whatever failures came before it.
C3_HandleUnaffectedByRequests ==
    [][ (phase' = phase) =>
            /\ tts' = tts /\ presets' = presets /\ closeCalls' = closeCalls
            /\ model' = model
            /\ (phase = "serving" /\ last' # last /\ Servable(last'))
                    => last'.status = 200 ]_vars

C3_Witness ==
    /\ someFailed
    /\ IsTTS("tts") /\ last.status = 200
    /\ tts = Handle /\ model = WhisperHandle

\* C4: with the model loaded and a known voice, when infer raises or returns
\* a null or zero-length waveform the answer is 500 and infer was called
\* exactly once in the request.
C4_InferFailureIs500 ==
    ( /\ IsTTS("tts")
      /\ last.calls.infer > 0
      /\ (last.infer.kind \in {"raise", "null"} \/ last.infer.n = 0) )
    => (last.status = 500 /\ last.calls.infer = 1)

C4_Witness ==
    /\ IsTTS("tts") /\ last.status = 500 /\ last.calls.infer = 1
    /\ last.infer.kind = "wav" /\ last.infer.n = 0

\* C5: no handler of the Synthesis Service runs before the startup load has
\* completed: whenever a handler has run, it saw the initialized handle.
C5_NoHandlerBeforeLoad ==
    /\ last.svc = "tts" => last.handle = Handle
    /\ phase \in {"imported", "loading", "failed"} => last.svc # "tts"

C5_Witness == last.svc = "tts" /\ last.handle = Handle /\ phase = "serving"

\* C6 as stated: whenever the handle is not initialized, every POST /api/tts
\* and GET /api/voices is answered 503 without any call to the runtime.
C6_NotLoadedAlways503 ==
    (last.svc = "tts" /\ last.ep \in {"tts", "voices"} /\ last.handle = None)
    => (last.status = 503 /\ last.calls = NoCalls)

\* C6: whenever the handle is not initialized, GET /api/voices and every
\* POST /api/tts whose body passes the field validation are answered 503
\* without any call to the runtime, whatever the voice (an unknown voice gets
\* 503, not 400).
C6_NotLoadedIs503 ==
    ( /\ last.svc = "tts" /\ last.handle = None
      /\ (last.ep = "voices" \/ (last.ep = "tts" /\ ValidBody(last.req))) )
    => (last.status = 503 /\ last.calls = NoCalls)

C6_Witness ==
    /\ IsTTS("tts") /\ last.handle = None /\ ValidBody(last.req)
    /\ last.req.voice = "Nope" /\ last.status = 503

\* C7: GET /api/health of the Synthesis Service answers 200 in every state,
\* with status "loading" exactly when the handle has not been created and
\* "ok", with the configured model identifier, exactly when it exists.
C7_HealthTracksHandle ==
    IsTTS("health") =>
        /\ last.status = 200
        /\ last.body.status \in {"ok", "loading"}
        /\ (last.body.status = "loading") <=> (last.handle = None)
        /\ (last.body.status = "ok") <=> (last.handle # None)
        /\ last.body.model = BACKBONE_REPO

C7_Witness == IsTTS("health") /\ last.handle = None /\ last.body.status = "loading"

\* C8: close() is called on the handle at most once in a process lifetime,
\* exactly once when the load completed and shutdown ran, and not at all
\* when no handle was created.
C8_ReleasedOnce ==
    /\ closeCalls <= 1
    /\ (phase = "stopped") => (tts = Handle /\ closeCalls = 1)
    /\ (tts = None) => (closeCalls = 0)

C8_Witness == phase = "stopped" /\ closeCalls = 1

\* C9: a successful POST /api/transcribe returns as many segments as the
\* model yielded, in the model's order, sorted by rounded start and with
\* start <= end, and its text is the segments' texts joined by single spaces.
C9_TranscriptMatchesSegments ==
    (IsSTT("transcribe") /\ last.status = 200) =>
        LET segs == last.body.segments
            src == last.infer.segs
        IN  /\ Len(segs) = Len(src)
            /\ \A i \in 1..Len(src) :
                  /\ segs[i].start = Round2(src[i].start)
                  /\ segs[i].end = Round2(src[i].end)
                  /\ segs[i].text = Strip(src[i].text)
                  /\ segs[i].start <= segs[i].end
            /\ \A i \in 1..(Len(segs) - 1) : segs[i].start <= segs[i + 1].start
            /\ last.body.text = Join([i \in 1..Len(segs) |-> segs[i].text])

C9_Witness ==
    /\ IsSTT("transcribe") /\ last.status = 200
    /\ Len(last.body.segments) = 2
    /\ last.body.segments[1].text # last.infer.segs[1].text
    /\ last.body.segments[1].start < last.body.segments[2].start

\* C10: with the model loaded, GET /api/voices returns one entry per preset
\* of list_preset_voices, in order, with its id and description; an entry
\* whose metadata lookup failed is present with ref_text "".
C10_OneEntryPerPreset ==
    (IsTTS("voices") /\ last.handle # None) =>
        /\ last.status = 200
        /\ Len(last.body.voices) = Len(presets)
        /\ \A i \in 1..Len(presets) :
              /\ last.body.voices[i].id = presets[i][2]
              /\ last.body.voices[i].description = presets[i][1]
              /\ (last.body.lookup[i] = "raise") => (last.body.voices[i].ref_text = "")

C10_Witness ==
    /\ IsTTS("voices") /\ last.status = 200 /\ Len(presets) = 2
    /\ last.body.lookup[1] = "raise" /\ last.body.lookup[2] = "text"

\* C11: every valid POST /api/tts (model loaded, fields in range, known
\* voice, non-empty waveform returned) succeeds, with an audio duration
\* (samples / 24000) > 0 and a processing time (end reading minus start
\* reading) > 0, whatever the two clock readings are.
C11_ValidRequestPositiveTimes ==
    ( /\ IsTTS("tts")
      /\ last.handle # None
      /\ ValidBody(last.req)
      /\ InSeq(VoiceOrDefault(last.req.voice), AvailableIds(presets))
      /\ last.get = "ok"
      /\ last.infer.kind = "wav" /\ last.infer.n > 0 )
    => ( /\ last.status = 200
         /\ last.body.samples > 0
         /\ last.body.process_time > 0 )

====
